---- MODULE Spec2Model ----
(***************************************************************************)
(* mash: the lexer state machine (pkg/lexer), the token catalog            *)
(* (pkg/token) and the recursive-descent command parser (pkg/parser).      *)
(*                                                                         *)
(* Source text is a sequence of bytes (0..255).  Runes, offsets and token  *)
(* types are integers as in the Go code; a string is the sequence of its   *)
(* bytes.  The lexer goroutine, the token channel and its receiver are     *)
(* processes of the specification Spec; the parser is checked over token   *)
(* streams under SpecCmd and SpecParser.                                   *)
(***************************************************************************)
EXTENDS Integers, Sequences, FiniteSets, TLC

(***************************************************************************)
(* Bounds of the model.                                                    *)
(***************************************************************************)
\* longest source tail enumerated (bytes)
MaxLen == 3

(***************************************************************************)
(* pkg/token: token types (iota) and their spellings.                      *)
(***************************************************************************)
Illegal == 0
Eof == 1
Comment == 2
literalBeg == 3
Identifier == 4
Number == 5
String == 6
literalEnd == 7
operatorBeg == 8
Addition == 9
Subtraction == 10
Multiplication == 11
Quotient == 12
Remainder == 13
And == 14
Or == 15
Xor == 16
ShiftLeft == 17
ShiftRight == 18
AndNot == 19
AdditionAssign == 20
SubtractionAssign == 21
MultiplicationAssign == 22
QuotientAssign == 23
RemainderAssign == 24
AndAssign == 25
OrAssign == 26
XorAssign == 27
ShiftLeftAssign == 28
ShiftRightAssign == 29
AndNotAssign == 30
LogicalAnd == 31
LogicalOr == 32
Equal == 33
LessThan == 34
GreaterThan == 35
Assign == 36
Define == 37
Not == 38
NotEqual == 39
LessThanEqual == 40
GreaterThanEqual == 41
LeftParen == 42
LeftBrack == 43
LeftBrace == 44
Template == 45
Comma == 46
Period == 47
RightParen == 48
RightBrack == 49
RightBrace == 50
Semicolon == 51
Colon == 52
operatorEnd == 53
keywordBeg == 54
For == 55
If == 56
Else == 57
Let == 58
Obj == 59
Func == 60
Break == 61
Continue == 62
Return == 63
keywordEnd == 64

\* var tokens = [...]string{...}: the spelling of type t is tokens[t + 1]
tokens ==
  <<
    <<73, 76, 76, 69, 71, 65, 76>>,  \* 0 Illegal
    <<69, 79, 70>>,  \* 1 Eof
    <<67, 79, 77, 77, 69, 78, 84>>,  \* 2 Comment
    <<>>,  \* 3 literalBeg
    <<73, 68, 69, 78, 84>>,  \* 4 Identifier
    <<70, 76, 79, 65, 84>>,  \* 5 Number
    <<83, 84, 82, 73, 78, 71>>,  \* 6 String
    <<>>,  \* 7 literalEnd
    <<>>,  \* 8 operatorBeg
    <<43>>,  \* 9 Addition
    <<45>>,  \* 10 Subtraction
    <<42>>,  \* 11 Multiplication
    <<47>>,  \* 12 Quotient
    <<37>>,  \* 13 Remainder
    <<38>>,  \* 14 And
    <<124>>,  \* 15 Or
    <<94>>,  \* 16 Xor
    <<60, 60>>,  \* 17 ShiftLeft
    <<62, 62>>,  \* 18 ShiftRight
    <<38, 94>>,  \* 19 AndNot
    <<43, 61>>,  \* 20 AdditionAssign
    <<45, 61>>,  \* 21 SubtractionAssign
    <<42, 61>>,  \* 22 MultiplicationAssign
    <<47, 61>>,  \* 23 QuotientAssign
    <<37, 61>>,  \* 24 RemainderAssign
    <<38, 61>>,  \* 25 AndAssign
    <<124, 61>>,  \* 26 OrAssign
    <<94, 61>>,  \* 27 XorAssign
    <<60, 60, 61>>,  \* 28 ShiftLeftAssign
    <<62, 62, 61>>,  \* 29 ShiftRightAssign
    <<38, 94, 61>>,  \* 30 AndNotAssign
    <<38, 38>>,  \* 31 LogicalAnd
    <<124, 124>>,  \* 32 LogicalOr
    <<61, 61>>,  \* 33 Equal
    <<60>>,  \* 34 LessThan
    <<62>>,  \* 35 GreaterThan
    <<61>>,  \* 36 Assign
    <<58, 61>>,  \* 37 Define
    <<33>>,  \* 38 Not
    <<33, 61>>,  \* 39 NotEqual
    <<60, 61>>,  \* 40 LessThanEqual
    <<62, 61>>,  \* 41 GreaterThanEqual
    <<40>>,  \* 42 LeftParen
    <<91>>,  \* 43 LeftBrack
    <<123>>,  \* 44 LeftBrace
    <<39>>,  \* 45 Template
    <<44>>,  \* 46 Comma
    <<46>>,  \* 47 Period
    <<41>>,  \* 48 RightParen
    <<93>>,  \* 49 RightBrack
    <<125>>,  \* 50 RightBrace
    <<59>>,  \* 51 Semicolon
    <<58>>,  \* 52 Colon
    <<>>,  \* 53 operatorEnd
    <<>>,  \* 54 keywordBeg
    <<102, 111, 114>>,  \* 55 For
    <<105, 102>>,  \* 56 If
    <<101, 108, 115, 101>>,  \* 57 Else
    <<108, 101, 116>>,  \* 58 Let
    <<111, 98, 106>>,  \* 59 Obj
    <<102, 117, 110, 99>>,  \* 60 Func
    <<98, 114, 101, 97, 107>>,  \* 61 Break
    <<99, 111, 110, 116, 105, 110, 117, 101>>,  \* 62 Continue
    <<114, 101, 116, 117, 114, 110>>   \* 63 Return
  >>

\* func token(s string) Type: the first type whose spelling is s, else Illegal
token(s) ==
  IF \E t \in 0..(Len(tokens) - 1) : tokens[t + 1] = s
  THEN CHOOSE t \in 0..(Len(tokens) - 1) :
         /\ tokens[t + 1] = s
         /\ \A u \in 0..(t - 1) : tokens[u + 1] # s
  ELSE Illegal

\* func (tok Type) IsLiteral() bool
TypeIsLiteral(tok) == literalBeg < tok /\ tok < literalEnd

\* func (tok Type) IsOperator() bool
TypeIsOperator(tok) == operatorBeg < tok /\ tok < operatorEnd

\* func (tok Type) IsKeyword() bool
TypeIsKeyword(tok) == keywordBeg < tok /\ tok < keywordEnd

\* var keywords map[string]Type, filled by init(): the types of the keyword range
keywords == { t \in 0..(Len(tokens) - 1) : keywordBeg < t /\ t < keywordEnd }

\* func IsKeyword(name string) bool
IsKeyword(name) == \E t \in keywords : tokens[t + 1] = name

\* func IsOperator(s string) bool
IsOperator(s) == TypeIsOperator(token(s))

\* func Lookup(name string) Type
Lookup(name) ==
  IF IsKeyword(name) THEN CHOOSE t \in keywords : tokens[t + 1] = name
  ELSE Identifier

(***************************************************************************)
(* Runes.  unicode.IsSpace, IsDigit and IsLetter on the runes the model    *)
(* reads: the Latin-1 range, where peek() can land, and decoded runes.     *)
(***************************************************************************)
\* const eof = -1
eof == -1
\* const bom = 0xFEFF
bom == 65279

\* unicode.IsSpace: '\t' '\n' '\v' '\f' '\r' ' ' U+0085 U+00A0
IsSpace(r) == r \in {9, 10, 11, 12, 13, 32, 133, 160}

\* unicode.IsDigit ('0'..'9' below U+0100)
IsDigit(r) == r >= 48 /\ r <= 57

\* unicode.IsLetter below U+0100
IsLetter(r) ==
  \/ r >= 65 /\ r <= 90
  \/ r >= 97 /\ r <= 122
  \/ r \in {170, 181, 186}
  \/ r >= 192 /\ r <= 255 /\ r \notin {215, 247}

\* func isAlphabet(r rune) bool
isAlphabet(r) == (r > 65 /\ r < 90) \/ (r > 97 /\ r < 122)

\* func isIdentStart(r rune) bool
isIdentStart(r) == r = 95 \/ IsLetter(r)

\* func isIdent(r rune) bool
isIdent(r) == isIdentStart(r) \/ IsDigit(r)

\* string(r) for a rune r: its UTF-8 bytes (U+FFFD for an invalid rune)
RuneString(r) ==
  IF r >= 0 /\ r < 128 THEN <<r>>
  ELSE IF r >= 128 /\ r < 2048 THEN <<192 + (r \div 64), 128 + (r % 64)>>
  ELSE IF r >= 2048 /\ r < 65536 /\ ~(r >= 55296 /\ r <= 57343)
       THEN <<224 + (r \div 4096), 128 + ((r \div 64) % 64), 128 + (r % 64)>>
  ELSE <<239, 191, 189>>

\* utf8.DecodeRuneInString(s) for sequences of up to three bytes: [r, w]
DecodeRune(s) ==
  LET n  == Len(s)
      s0 == s[1]
      bad == [r |-> 65533, w |-> 1]
      sz == IF s0 >= 194 /\ s0 <= 223 THEN 2
            ELSE IF s0 >= 224 /\ s0 <= 239 THEN 3
            ELSE IF s0 >= 240 /\ s0 <= 244 THEN 4
            ELSE 1
      lo == IF s0 = 224 THEN 160 ELSE IF s0 = 240 THEN 144 ELSE 128
      hi == IF s0 = 237 THEN 159 ELSE IF s0 = 244 THEN 143 ELSE 191
  IN  IF n < 1 THEN [r |-> 65533, w |-> 0]
      ELSE IF s0 < 128 THEN [r |-> s0, w |-> 1]
      ELSE IF sz = 1 \/ n < sz THEN bad
      ELSE IF s[2] < lo \/ hi < s[2] THEN bad
      ELSE IF sz = 2 THEN [r |-> (s0 % 32) * 64 + (s[2] % 64), w |-> 2]
      ELSE IF s[3] < 128 \/ 191 < s[3] THEN bad
      ELSE IF sz = 3
           THEN [r |-> (s0 % 16) * 4096 + (s[2] % 64) * 64 + (s[3] % 64), w |-> 3]
      ELSE IF s[4] < 128 \/ 191 < s[4] THEN bad
      ELSE [r |-> (s0 % 8) * 262144 + (s[2] % 64) * 4096
                  + (s[3] % 64) * 64 + (s[4] % 64), w |-> 4]

(***************************************************************************)
(* pkg/lexer: the lexer struct and its methods.  A lexer value is a record *)
(* l; a method is an operator from the lexer before to the lexer after.    *)
(***************************************************************************)
\* token.Position{Line: 1, Col: 1}
origin == [Line |-> 1, Col |-> 1]

\* func (p *Position) NextLine()
NextLine(p) == [Line |-> p.Line + 1, Col |-> 1]

\* l := &lexer{src: src, Tokens: ..., err: err, start: origin, pos: origin}
NewLexer(src, err) ==
  [src |-> src, ch |-> 0, wd |-> 0, insertSemi |-> FALSE, err |-> err,
   offset |-> 0, rdOffset |-> 0,
   start |-> origin, prev |-> [Line |-> 0, Col |-> 0], pos |-> origin,
   ErrCount |-> 0, errs |-> <<>>]

\* func (l *lexer) atEnd() bool
atEnd(l) == l.rdOffset >= Len(l.src)

\* func (l *lexer) peek() rune
peek(l) == IF atEnd(l) THEN eof ELSE l.src[l.rdOffset + 1]

\* func (l *lexer) literal() string
literal(l) == SubSeq(l.src, l.offset + 1, l.rdOffset)

\* ignore moving the offset but not the start position
ignoreOffsetOnly(l) == [l EXCEPT !.offset = l.rdOffset]

\* func (l *lexer) ignore()
ignore(l) == [l EXCEPT !.offset = l.rdOffset, !.start = l.pos]

\* func (l *lexer) error(err error); errs records the handler's calls
error(l, e) ==
  [l EXCEPT !.ErrCount = l.ErrCount + 1,
            !.errs = IF l.err THEN Append(l.errs, [pos |-> l.pos, err |-> e])
                     ELSE l.errs]

\* consume's advance: label without the call of NextLine
advanceSameLine(l, r, w) ==
  [l EXCEPT !.ch = r, !.wd = w, !.prev = l.pos,
            !.rdOffset = l.rdOffset + w,
            !.pos = [l.pos EXCEPT !.Col = l.pos.Col + w]]

\* consume's advance: label
advance(l, r, w) ==
  LET p1 == [l.pos EXCEPT !.Col = l.pos.Col + w]
  IN  [l EXCEPT !.ch = r, !.wd = w, !.prev = l.pos,
                !.rdOffset = l.rdOffset + w,
                !.pos = IF r = 10 THEN NextLine(p1) ELSE p1]

\* consume reading a NUL byte without reporting it
consumeNulSilent(l) ==
  IF atEnd(l) THEN [l EXCEPT !.ch = eof, !.wd = 0]
  ELSE LET r0 == l.src[l.rdOffset + 1]
           d  == DecodeRune(SubSeq(l.src, l.rdOffset + 1, Len(l.src)))
       IN  IF r0 < 128 THEN advance(l, r0, 1)
           ELSE IF d.r = 65533 /\ d.w = 1 THEN advance(error(l, "ErrEnc"), d.r, d.w)
           ELSE IF d.r = bom /\ l.offset > 0 THEN advance(error(l, "ErrBOM"), d.r, d.w)
           ELSE advance(l, d.r, d.w)

\* func (l *lexer) consume()
consume(l) ==
  IF atEnd(l) THEN [l EXCEPT !.ch = eof, !.wd = 0]
  ELSE LET r0 == l.src[l.rdOffset + 1]
           d  == DecodeRune(SubSeq(l.src, l.rdOffset + 1, Len(l.src)))
       IN  IF r0 = 0 THEN advance(error(l, "ErrNUL"), r0, 1)
           ELSE IF r0 < 128 THEN advance(l, r0, 1)
           ELSE IF d.r = 65533 /\ d.w = 1 THEN advance(error(l, "ErrEnc"), d.r, d.w)
           ELSE IF d.r = bom /\ l.offset > 0 THEN advance(error(l, "ErrBOM"), d.r, d.w)
           ELSE advance(l, d.r, d.w)

\* func (l *lexer) backup()
backup(l) == [l EXCEPT !.rdOffset = l.rdOffset - l.wd, !.pos = l.prev]

\* f(x) with x evaluated once: a call on the result of the call before it
Then(x, f(_)) == CHOOSE r \in { f(y) : y \in {x} } : TRUE

\* func (l *lexer) consumeSpace(): skip the run of white space and drop it
RECURSIVE consumeSpaceLoop(_)
consumeSpaceLoop(l) ==
  IF IsSpace(peek(l)) THEN Then(consume(l), consumeSpaceLoop) ELSE l

consumeSpace(l) == Then(consumeSpaceLoop(l), ignore)

\* func (l *lexer) consumeWord(): the run of isAlphabet runes
RECURSIVE consumeWord(_)
consumeWord(l) ==
  IF isAlphabet(peek(l)) THEN Then(consume(l), consumeWord) ELSE l

\* func (l *lexer) consumeIdent(): the run of isIdent runes
RECURSIVE consumeIdent(_)
consumeIdent(l) ==
  IF isIdent(peek(l)) THEN Then(consume(l), consumeIdent) ELSE l

\* func (l *lexer) consumeString(): through the closing quote or the end
RECURSIVE consumeString(_)
consumeStringFrom(l1) ==
  IF l1.ch = 34 \/ l1.ch = eof THEN l1 ELSE consumeString(l1)

consumeString(l) == Then(consume(l), consumeStringFrom)

\* func (l *lexer) consumeComment(): through the end of the line
RECURSIVE consumeComment(_)
consumeCommentFrom(l1) ==
  IF l1.ch = 10 THEN l1 ELSE consumeComment(l1)

consumeComment(l) ==
  IF atEnd(l) THEN l ELSE Then(consume(l), consumeCommentFrom)

\* lexNum's loop: for unicode.IsDigit(l.peek()) { l.consume() }
RECURSIVE lexNumLoop(_)
lexNumLoop(l) ==
  IF IsDigit(peek(l)) THEN Then(consume(l), lexNumLoop) ELSE l

\* lexStmtOp's switch on l.ch: the token type t (zero value Illegal)
lexStmtOpType(c) ==
  CASE c = 43 -> Addition
    [] c = 45 -> Subtraction
    [] c = 42 -> Multiplication
    [] c = 47 -> Quotient
    [] c = 37 -> Remainder
    [] c = 38 -> And
    [] c = 124 -> Or
    [] c = 94 -> Xor
    [] c = 60 -> LessThan
    [] c = 62 -> GreaterThan
    [] c = 61 -> Assign
    [] c = 33 -> Not
    [] c = 40 -> LeftParen
    [] c = 91 -> LeftParen
    [] c = 123 -> LeftBrace
    [] c = 44 -> Comma
    [] c = 41 -> RightParen
    [] c = 93 -> RightBrack
    [] c = 125 -> RightBrace
    [] c = 59 -> Semicolon
    [] c = 58 -> Colon
    [] OTHER -> Illegal

(***************************************************************************)
(* State.                                                                  *)
(*   l         the lexer struct                                            *)
(*   state     the stateFunc run() holds: "lexBase", "lexStmt", "lexNum",  *)
(*             "lexStmtOp", "lexCmd" or "nil"                              *)
(*   lpc       where the lexer goroutine is: "new" (Lex not yet called),   *)
(*             "run" (in run's loop),                                      *)
(*             "send" (blocked in emit's channel send), "sent" (the send   *)
(*             has returned, emit has not yet called ignore), "done"       *)
(*   sendTok   the token of the blocked send                               *)
(*   emitNext  the stateFunc the emitting state returns after emit         *)
(*   buf       the channel's buffer; closed, closes: close(l.Tokens)       *)
(*   sent      every token handed to a channel send so far, in order       *)
(*   windows   offset and rdOffset at each emit, in order                  *)
(*   received  every token the receiver has got so far, in order           *)
(*   cpc       the receiver: "range" (in its loop) or "done"               *)
(*   p         the parser struct: its token stream, the current and the    *)
(*             next token, the tokens taken from the stream, the errors    *)
(*   node      the command a parse function returned; entry: which one     *)
(*   stack     the statements of the blocks being parsed, innermost last   *)
(*   program   the statements of the Program so far                        *)
(*   ppc       where the parser is: "idle", "cmd", "program", "block",     *)
(*             "done"                                                      *)
(***************************************************************************)
VARIABLES l, state, lpc, sendTok, emitNext, buf, closed, closes, sent,
          windows, received, cpc, p, node, entry, stack, program, ppc

lexVars == <<l, state, lpc, sendTok, emitNext, buf, closed, closes, sent,
             windows, received, cpc>>
parVars == <<p, node, entry, stack, program, ppc>>
vars == <<l, state, lpc, sendTok, emitNext, buf, closed, closes, sent,
          windows, received, cpc, p, node, entry, stack, program, ppc>>

\* the zero value of token.Token
ZeroToken == [Type |-> Illegal, Literal |-> <<>>, Position |-> [Line |-> 0, Col |-> 0]]

\* a token channel with a buffer of one token
ChanCapBuffered == 0 + 1

\* make(TokenStream): the capacity of the token channel
ChanCap == 0

\* the bytes source strings are drawn from: '\n' ' ' '"' '#' '1' 'f' 'i' '|' '$'
Alphabet == {10, 32, 34, 35, 49, 102, 105, 124, 36}

\* every string over Alphabet of at most n bytes
Strs(n) == UNION { [1..k -> Alphabet] : k \in 0..n }

\* how a source string begins: nothing, or the keyword "if"
Heads == { <<>>, <<105, 102>> }

\* the source strings lexed
Sources == { h \o t : h \in Heads, t \in Strs(MaxLen) }

\* the parser is idle while the lexer is checked
ParserIdle ==
  /\ p = [tokens |-> <<>>, cur |-> ZeroToken, peek |-> ZeroToken, pos |-> 0, errs |-> 0]
  /\ node = [kind |-> "none"]
  /\ entry = "none"
  /\ stack = <<>>
  /\ program = <<>>
  /\ ppc = "idle"

\* before Lex is called: no lexer goroutine yet
Init ==
  /\ l = NewLexer(<<>>, TRUE)
  /\ state = "lexBase"
  /\ lpc = "new"
  /\ sendTok = ZeroToken
  /\ emitNext = "nil"
  /\ buf = <<>>
  /\ closed = FALSE
  /\ closes = 0
  /\ sent = <<>>
  /\ windows = <<>>
  /\ received = <<>>
  /\ cpc = "range"
  /\ ParserIdle

\* func Lex(src string, err ErrorHandler) TokenStream: the lexer is built
\* for a source string and its goroutine started (go l.run())
Lex ==
  /\ lpc = "new" /\ ppc = "idle" /\ p.tokens = <<>>
  /\ \E src \in Sources : l' = NewLexer(src, TRUE)
  /\ lpc' = "run"
  /\ UNCHANGED <<state, sendTok, emitNext, buf, closed, closes, sent, windows, received, cpc>>
  /\ UNCHANGED parVars

\* func (l *lexer) emit(t token.Type), up to the channel send: the token is
\* built from lexer l1 and handed to the channel; with room in the buffer the
\* send returns at once, otherwise the goroutine blocks until a receive.
\* ret is the stateFunc the caller returns once emit has returned.
emit(l1, t, ret) ==
  LET tk == [Type |-> t, Literal |-> literal(l1), Position |-> l1.start]
  IN  /\ l' = l1
      /\ sent' = Append(sent, tk)
      /\ windows' = Append(windows, [offset |-> l1.offset, rdOffset |-> l1.rdOffset])
      /\ emitNext' = ret
      /\ state' = state
      /\ IF Len(buf) < ChanCap
         THEN buf' = Append(buf, tk) /\ lpc' = "sent" /\ sendTok' = sendTok
         ELSE buf' = buf /\ lpc' = "send" /\ sendTok' = tk
      /\ UNCHANGED <<closed, closes, received, cpc>>

\* a state function that returns ret without emitting
goto(l1, ret) ==
  /\ l' = l1
  /\ state' = ret
  /\ UNCHANGED <<lpc, sendTok, emitNext, buf, closed, closes, sent, windows, received, cpc>>

\* emit, after the send has returned: l.ignore(); the caller returns emitNext
EmitReturn ==
  /\ lpc = "sent"
  /\ l' = ignore(l)
  /\ state' = emitNext
  /\ lpc' = "run"
  /\ UNCHANGED <<sendTok, emitNext, buf, closed, closes, sent, windows, received, cpc>>
  /\ UNCHANGED parVars

\* func lexBase(l *lexer) stateFunc
LexBase ==
  /\ lpc = "run" /\ state = "lexBase"
  /\ \E r \in {peek(l)} :
     \E l1 \in {IF IsSpace(r) THEN consumeSpace(l) ELSE l} :
       IF isAlphabet(r)
       THEN \E l2 \in {consumeWord(l1)} :
            \E word \in {literal(l2)} :
              IF IsKeyword(word)
              THEN emit(l2, Lookup(word), "lexStmt")
              ELSE goto(backup(l2), "lexCmd")
       ELSE goto(l1, "lexCmd")
  /\ UNCHANGED parVars

\* lexStmt's switch emitting the # alone as the comment
lexStmtSwitchHashOnly(l1) ==
  IF IsSpace(l1.ch) THEN \E l2 \in {consumeSpace(l1)} : goto(l2, "lexStmt")
  ELSE IF isIdentStart(l1.ch)
       THEN \E l2 \in {consumeIdent(l1)} :
              emit(l2, Lookup(literal(l2)), "lexStmt")
  ELSE IF IsDigit(l1.ch) THEN goto(l1, "lexNum")
  ELSE IF l1.ch = 34
       THEN \E l2 \in {consumeString(l1)} : emit(l2, String, "lexStmt")
  ELSE IF IsOperator(RuneString(l1.ch)) THEN goto(l1, "lexStmtOp")
  ELSE IF l1.ch = 35 THEN emit(l1, Comment, "lexStmt")
  ELSE IF l1.ch = eof THEN emit(l1, Eof, "nil")
  ELSE emit(l1, Illegal, "lexStmt")

\* lexStmt's switch on l.ch, the rune consume has just read into lexer l1
lexStmtSwitch(l1) ==
  IF IsSpace(l1.ch) THEN \E l2 \in {consumeSpace(l1)} : goto(l2, "lexStmt")
  ELSE IF isIdentStart(l1.ch)
       THEN \E l2 \in {consumeIdent(l1)} :
              emit(l2, Lookup(literal(l2)), "lexStmt")
  ELSE IF IsDigit(l1.ch) THEN goto(l1, "lexNum")
  ELSE IF l1.ch = 34
       THEN \E l2 \in {consumeString(l1)} : emit(l2, String, "lexStmt")
  ELSE IF IsOperator(RuneString(l1.ch)) THEN goto(l1, "lexStmtOp")
  ELSE IF l1.ch = 35
       THEN \E l2 \in {consumeComment(l1)} : emit(l2, Comment, "lexStmt")
  ELSE IF l1.ch = eof THEN emit(l1, Eof, "nil")
  ELSE emit(l1, Illegal, "lexStmt")

\* lexStmt switching on the rune ahead without consuming it
LexStmtPeek ==
  /\ lpc = "run" /\ state = "lexStmt"
  /\ \E l1 \in {[l EXCEPT !.ch = peek(l), !.wd = 0]} : lexStmtSwitch(l1)
  /\ UNCHANGED parVars

\* func lexStmt(l *lexer) stateFunc
LexStmt ==
  /\ lpc = "run" /\ state = "lexStmt"
  /\ \E l1 \in {consume(l)} : lexStmtSwitch(l1)
  /\ UNCHANGED parVars

\* func lexNum(l *lexer) stateFunc
LexNum ==
  /\ lpc = "run" /\ state = "lexNum"
  /\ \E l1 \in {lexNumLoop(l)} : emit(l1, Number, "lexStmt")
  /\ UNCHANGED parVars

\* func lexStmtOp(l *lexer) stateFunc
LexStmtOp ==
  /\ lpc = "run" /\ state = "lexStmtOp"
  /\ emit(l, lexStmtOpType(l.ch), "lexStmt")
  /\ UNCHANGED parVars

\* func lexCmd(l *lexer) stateFunc
LexCmd ==
  /\ lpc = "run" /\ state = "lexCmd"
  /\ goto(l, "nil")
  /\ UNCHANGED parVars

\* func (l *lexer) run(), after its loop: close(l.Tokens)
Close ==
  /\ lpc = "run" /\ state = "nil"
  /\ closed' = TRUE
  /\ closes' = closes + 1
  /\ lpc' = "done"
  /\ UNCHANGED <<l, state, sendTok, emitNext, buf, sent, windows, received, cpc>>
  /\ UNCHANGED parVars

\* a receiver that puts each token it receives before the ones it has
ReceiveReversed ==
  /\ cpc = "range"
  /\ IF buf # <<>>
     THEN /\ received' = <<Head(buf)>> \o received
          /\ IF lpc = "send"
             THEN buf' = Append(Tail(buf), sendTok) /\ lpc' = "sent"
             ELSE buf' = Tail(buf) /\ lpc' = lpc
     ELSE /\ lpc = "send"
          /\ received' = <<sendTok>> \o received
          /\ buf' = buf
          /\ lpc' = "sent"
  /\ UNCHANGED <<l, state, sendTok, emitNext, closed, closes, sent, windows, cpc>>
  /\ UNCHANGED parVars

\* for c := range l.Tokens: one receive.  A buffered token is taken first and
\* a blocked sender's token then moves into the buffer; with an empty buffer
\* the token is taken from the blocked sender, whose send then returns.
Receive ==
  /\ cpc = "range"
  /\ IF buf # <<>>
     THEN /\ received' = Append(received, Head(buf))
          /\ IF lpc = "send"
             THEN buf' = Append(Tail(buf), sendTok) /\ lpc' = "sent"
             ELSE buf' = Tail(buf) /\ lpc' = lpc
     ELSE /\ lpc = "send"
          /\ received' = Append(received, sendTok)
          /\ buf' = buf
          /\ lpc' = "sent"
  /\ UNCHANGED <<l, state, sendTok, emitNext, closed, closes, sent, windows, cpc>>
  /\ UNCHANGED parVars

\* for c := range l.Tokens: the channel is closed and drained, the loop ends
RangeEnd ==
  /\ cpc = "range"
  /\ closed /\ buf = <<>>
  /\ cpc' = "done"
  /\ UNCHANGED <<l, state, lpc, sendTok, emitNext, buf, closed, closes, sent, windows, received>>
  /\ UNCHANGED parVars

Next ==
  \/ Lex
  \/ LexBase
  \/ LexStmt
  \/ LexNum
  \/ LexStmtOp
  \/ LexCmd
  \/ EmitReturn
  \/ Close
  \/ Receive
  \/ RangeEnd

Spec == Init /\ [][Next]_vars

\* the scheduler runs the lexer goroutine whenever it can take a step, and
\* the receiver keeps receiving
LexerStep == LexBase \/ LexStmt \/ LexNum \/ LexStmtOp \/ LexCmd \/ EmitReturn \/ Close

SpecLive == Spec /\ WF_vars(LexerStep) /\ WF_vars(Receive) /\ WF_vars(RangeEnd)

(***************************************************************************)
(* Claims about the lexer and the token stream.                            *)
(***************************************************************************)
\* the number of Eof tokens in a token sequence
EofCount(s) == Cardinality({ i \in 1..Len(s) : s[i].Type = Eof })

\* the bytes of the source are all white space
AllSpace(s) == \A i \in 1..Len(s) : IsSpace(s[i])

\* C1: once run() has returned, the stream has been closed exactly once, the
\* Eof token was sent exactly once and it is the last token sent.
C1_EofOnceBeforeClose ==
  lpc = "done" =>
    /\ closes = 1
    /\ EofCount(sent) = 1
    /\ sent[Len(sent)].Type = Eof

\* C2: for a source of white space only (the empty source included) the lexer
\* sends exactly one token, of type Eof, and then closes the stream.
C2_WhitespaceOnlyEof ==
  (lpc = "done" /\ AllSpace(l.src)) =>
    /\ Len(sent) = 1
    /\ sent[1].Type = Eof

\* C3: the tokens received are always a prefix of the tokens sent, in the
\* same order, and a receiver whose loop has ended has received them all.
C3_ReceivedPrefixOfSent ==
  /\ Len(received) <= Len(sent)
  /\ received = SubSeq(sent, 1, Len(received))
  /\ cpc = "done" => received = sent

\* C3 witness: two different tokens have been received, a third is in flight
C3_Witness ==
  /\ Len(received) >= 2
  /\ received[1] # received[2]
  /\ Len(sent) = Len(received) + 1

\* the lexer is at most one token ahead, and while it is ahead it is blocked
\* in emit's send with its window untouched and the stream open
AtMostOneAhead ==
  /\ Len(sent) <= Len(received) + 1
  /\ Len(sent) > Len(received) =>
       /\ lpc = "send"
       /\ ~closed
       /\ sendTok = sent[Len(sent)]
       /\ literal(l) = sendTok.Literal
       /\ l.start = sendTok.Position
  /\ lpc # "send" => Len(sent) = Len(received)

\* a step that receives nothing leaves a blocked lexer blocked
BlockedUntilReceived ==
  (lpc = "send" /\ received' = received) =>
    /\ lpc' = "send"
    /\ l' = l
    /\ state' = state
    /\ closed' = closed
    /\ sent' = sent

\* C4: backpressure: the lexer is never more than one token ahead of the
\* receiver, emit does not return or reset the window before the token is
\* received, and without a receive the lexer stays blocked, stream open.
C4_Backpressure == []AtMostOneAhead /\ [][BlockedUntilReceived]_vars

\* C4 witness: the lexer is blocked sending its second token
C4_Witness ==
  /\ lpc = "send"
  /\ Len(sent) = 2
  /\ Len(received) = 1
  /\ l.rdOffset > l.offset

\* a pass through lexStmt either halts (it emits Eof and returns nil) or
\* leaves rdOffset at least one byte further
LexStmtAdvances ==
  (lpc = "run" /\ state = "lexStmt") =>
    \/ l'.rdOffset >= l.rdOffset + 1
    \/ emitNext' = "nil" /\ lpc' # "run"

\* C5: with a receiver that keeps receiving, the lexer reaches the nil state
\* and closes the stream, and every pass through lexStmt that does not halt
\* advances rdOffset.
C5_LexerTerminates ==
  /\ (lpc = "run") ~> (closed /\ state = "nil" /\ lpc = "done")
  /\ [][LexStmtAdvances]_vars

\* C5 witness: the stream is closed after several passes through lexStmt
C5_Witness ==
  /\ closed
  /\ Len(sent) >= 3
  /\ l.rdOffset = Len(l.src)

\* byte b of source s is white space, or lies in a line comment: a # comes
\* before it with no newline in between
Discarded(s, b) ==
  \/ IsSpace(s[b])
  \/ \E j \in 1..b : s[j] = 35 /\ \A k \in j..(b - 1) : s[k] # 10

\* every emit has a window inside the source and sends that window's bytes
WindowsInSource ==
  \A i \in 1..Len(windows) :
    /\ 0 <= windows[i].offset
    /\ windows[i].offset <= windows[i].rdOffset
    /\ windows[i].rdOffset <= Len(l.src)
    /\ sent[i].Literal = SubSeq(l.src, windows[i].offset + 1, windows[i].rdOffset)

\* a token's window starts where the one before it ended, or later
WindowsInOrder ==
  \A i \in 1..(Len(windows) - 1) : windows[i + 1].offset >= windows[i].rdOffset

\* the number of emitted tokens whose window holds byte b
TokensAt(b) ==
  Cardinality({ i \in 1..Len(windows) :
                  windows[i].offset < b /\ b <= windows[i].rdOffset })

\* C7: every emit's window lies inside the source and is the token's
\* literal, windows follow one another without overlap, and once the lexer
\* has finished every source byte is in exactly one token's literal or is a
\* discarded white space or comment byte.
C7_TokensCoverSource ==
  /\ WindowsInSource
  /\ WindowsInOrder
  /\ lpc = "done" =>
       \A b \in 1..Len(l.src) :
         \/ TokensAt(b) = 1
         \/ TokensAt(b) = 0 /\ Discarded(l.src, b)

(***************************************************************************)
(* pkg/parser.  A parser value is a record q: tokens is its token stream   *)
(* (what the channel delivers, in order), cur the token just consumed,     *)
(* peek the next unconsumed token, pos the index of peek in the stream     *)
(* (Len + 1 once the stream is used up), errs the errors reported.         *)
(* p.tok is q.cur.Type and p.pTok is q.peek.Type.  A parse function is an  *)
(* operator from the parser before to [p |-> the parser after, ast |->     *)
(* the node returned].                                                     *)
(***************************************************************************)
\* longest token stream of a command (SpecCmd)
MaxCmdToks == 5
\* longest token stream of a program, Eof not counted (SpecParser)
MaxStmtToks == 4
\* statements appended to one Program or block before the model stops a loop
MaxStmts == 4

\* <-tokens: the i-th receive; the zero Token once the stream is closed
recv(s, i) == IF i <= Len(s) THEN s[i] ELSE ZeroToken

\* the parser on a token stream, its first token as lookahead
NewParser(s) ==
  [tokens |-> s, cur |-> ZeroToken, peek |-> recv(s, 1), pos |-> 1, errs |-> 0]

\* func (p *parser) next()
pnext(q) ==
  [q EXCEPT !.cur = q.peek,
            !.peek = recv(q.tokens, q.pos + 1),
            !.pos = IF q.pos <= Len(q.tokens) THEN q.pos + 1 ELSE q.pos]

\* func (p *parser) current() token.Token
pcurrent(q) == q.cur

\* func (p *parser) match(t token.Type) bool
pmatch(q, t) ==
  IF q.peek.Type = t THEN [p |-> pnext(q), ok |-> TRUE]
  ELSE [p |-> q, ok |-> FALSE]

\* func (p *parser) error(err error)
perror(q) == [q EXCEPT !.errs = q.errs + 1]

\* func (p *parser) atEnd() bool
patEnd(q) == q.peek.Type = Eof

\* &ast.LiteralCommand{Cmd: ..., Args: ...}
LiteralCommand(cmd, args) == [kind |-> "LiteralCommand", Cmd |-> cmd, Args |-> args]

\* &ast.UnaryCommand{Operator: ..., Right: ...}
UnaryCommand(op, right) == [kind |-> "UnaryCommand", Operator |-> op, Right |-> right]

\* &ast.BinaryCommand{Left: ..., Operator: ..., Right: ...}
BinaryCommand(left, op, right) ==
  [kind |-> "BinaryCommand", Left |-> left, Operator |-> op, Right |-> right]

\* &ast.LogicalCommand{Left: ..., Operator: ..., Right: ...}
LogicalCommand(left, op, right) ==
  [kind |-> "LogicalCommand", Left |-> left, Operator |-> op, Right |-> right]

\* &ast.CmdStatement{Command: ...}
CmdStatement(cmd) == [kind |-> "CmdStatement", Command |-> cmd]

\* &ast.BlockStatement{Statements: ...}
BlockStatement(stmts) == [kind |-> "BlockStatement", Statements |-> stmts]

\* a nil ast.Statement
NilStatement == [kind |-> "nil"]

\* parseCmdLit's loop: for p.match(token.STRING) { lit.Args = append(...) }
RECURSIVE parseCmdLitLoop(_, _)
parseCmdLitLoop(q, lit) ==
  Then(pmatch(q, String), LAMBDA m :
    IF m.ok
    THEN parseCmdLitLoop(m.p, [lit EXCEPT !.Args = Append(@, pcurrent(m.p))])
    ELSE [p |-> q, ast |-> lit])

\* func (p *parser) parseCmdLit() ast.Command
parseCmdLit(q) ==
  Then(pmatch(q, String), LAMBDA m :
  Then(IF m.ok THEN m.p ELSE perror(q), LAMBDA q1 :
    parseCmdLitLoop(q1, LiteralCommand(pcurrent(q1), <<>>))))

RECURSIVE parseCmdPipeLoop(_, _)
\* parseCmdPipe's loop folding to the right: a | (b | c)
parseCmdPipeLoopRight(q, expr) ==
  Then(pmatch(q, Or), LAMBDA m :
    IF m.ok
    THEN Then(parseCmdLit(m.p), LAMBDA r :
         Then(parseCmdPipeLoop(r.p, r.ast), LAMBDA rest :
           [p |-> rest.p, ast |-> BinaryCommand(expr, pcurrent(m.p), rest.ast)]))
    ELSE [p |-> q, ast |-> expr])

\* parseCmdPipe's loop: for p.match(token.OR) { ... expr = &ast.BinaryCommand{...} }
parseCmdPipeLoop(q, expr) ==
  Then(pmatch(q, Or), LAMBDA m :
    IF m.ok
    THEN Then(parseCmdLit(m.p), LAMBDA r :
           parseCmdPipeLoop(r.p, BinaryCommand(expr, pcurrent(m.p), r.ast)))
    ELSE [p |-> q, ast |-> expr])

\* func (p *parser) parseCmdPipe() ast.Command
parseCmdPipe(q) ==
  Then(parseCmdLit(q), LAMBDA r : parseCmdPipeLoop(r.p, r.ast))

\* parseCmdNot negating the next literal only: (! a) | b
parseCmdNotLiteral(q) ==
  Then(pmatch(q, Not), LAMBDA m :
    IF m.ok
    THEN Then(parseCmdLit(m.p), LAMBDA r :
           parseCmdPipeLoop(r.p, UnaryCommand(pcurrent(m.p), r.ast)))
    ELSE parseCmdPipe(q))

\* func (p *parser) parseCmdNot() ast.Command
parseCmdNot(q) ==
  Then(pmatch(q, Not), LAMBDA m :
    IF m.ok
    THEN Then(parseCmdPipe(m.p), LAMBDA r :
           [p |-> r.p, ast |-> UnaryCommand(pcurrent(m.p), r.ast)])
    ELSE parseCmdPipe(q))

\* parseCmdAnd's loop: for p.match(token.LAND) { ... }
RECURSIVE parseCmdAndLoop(_, _)
parseCmdAndLoop(q, expr) ==
  Then(pmatch(q, LogicalAnd), LAMBDA m :
    IF m.ok
    THEN Then(parseCmdNot(m.p), LAMBDA r :
           parseCmdAndLoop(r.p, LogicalCommand(expr, pcurrent(m.p), r.ast)))
    ELSE [p |-> q, ast |-> expr])

\* func (p *parser) parseCmdAnd() ast.Command
parseCmdAnd(q) ==
  Then(parseCmdNot(q), LAMBDA r : parseCmdAndLoop(r.p, r.ast))

RECURSIVE parseCmdLorLoop(_, _)
\* parseCmdLor's loop taking a bare Not expression as its right operand
parseCmdLorLoopFlat(q, expr) ==
  Then(pmatch(q, LogicalOr), LAMBDA m :
    IF m.ok
    THEN Then(parseCmdNot(m.p), LAMBDA r :
           parseCmdLorLoop(r.p, LogicalCommand(expr, pcurrent(m.p), r.ast)))
    ELSE parseCmdAndLoop(q, expr))

\* parseCmdLor's loop: for p.match(token.LOR) { ... }
parseCmdLorLoop(q, expr) ==
  Then(pmatch(q, LogicalOr), LAMBDA m :
    IF m.ok
    THEN Then(parseCmdAnd(m.p), LAMBDA r :
           parseCmdLorLoop(r.p, LogicalCommand(expr, pcurrent(m.p), r.ast)))
    ELSE [p |-> q, ast |-> expr])

\* func (p *parser) parseCmdLor() ast.Command
parseCmdLor(q) ==
  Then(parseCmdAnd(q), LAMBDA r : parseCmdLorLoop(r.p, r.ast))

\* func (p *parser) parseCommand() ast.Command
parseCommand(q) == parseCmdLor(q)

\* func (p *parser) parseCmdStmt() *ast.CmdStatement
parseCmdStmt(q) ==
  Then(parseCommand(q), LAMBDA r : [p |-> r.p, ast |-> CmdStatement(r.ast)])

(***************************************************************************)
(* The command grammar applied to a token stream: SpecCmd.                 *)
(***************************************************************************)
\* token i of a stream: its type, the type's spelling, its place
MkToken(t, i) == [Type |-> t, Literal |-> tokens[t + 1], Position |-> [Line |-> 1, Col |-> i]]

\* the token types a command stream is drawn from
CmdKinds == {String, Or, LogicalOr, LogicalAnd, Not, Semicolon}

\* the lexer and the channel are idle while the parser is checked
LexerIdle == UNCHANGED lexVars

\* the token stream of a command grows by one token of any of CmdKinds
CmdToken ==
  /\ ppc = "idle" /\ lpc = "new"
  /\ Len(p.tokens) < MaxCmdToks
  /\ \E t \in CmdKinds :
       p' = [p EXCEPT !.tokens = Append(@, MkToken(t, Len(@) + 1))]
  /\ UNCHANGED <<node, entry, stack, program, ppc>>
  /\ LexerIdle

\* a parser is made for the command's token stream
NewCmdParser ==
  /\ ppc = "idle" /\ lpc = "new"
  /\ p' = NewParser(p.tokens)
  /\ ppc' = "cmd"
  /\ UNCHANGED <<node, entry, stack, program>>
  /\ LexerIdle

\* a call of f on the parser: the node returned and the parser after it
Call(name, r) ==
  /\ p' = r.p
  /\ node' = r.ast
  /\ entry' = name
  /\ ppc' = "done"
  /\ UNCHANGED <<stack, program>>
  /\ LexerIdle

CallParseCmdPipe == ppc = "cmd" /\ \E r \in {parseCmdPipe(p)} : Call("parseCmdPipe", r)

CallParseCmdNot == ppc = "cmd" /\ \E r \in {parseCmdNot(p)} : Call("parseCmdNot", r)

CallParseCommand == ppc = "cmd" /\ \E r \in {parseCommand(p)} : Call("parseCommand", r)

NextCmd ==
  \/ CmdToken
  \/ NewCmdParser
  \/ CallParseCmdPipe
  \/ CallParseCmdNot
  \/ CallParseCommand

SpecCmd == Init /\ [][NextCmd]_vars

(***************************************************************************)
(* parseProgram on a token stream that ends with Eof: SpecParser.          *)
(***************************************************************************)
\* the token types a program's stream is drawn from
StmtKinds == {String, Or, Not, Semicolon, LeftBrace, RightBrace, Let, If, For}

\* the token stream of a program grows by one token of any of StmtKinds
StmtToken ==
  /\ ppc = "idle" /\ lpc = "new"
  /\ Len(p.tokens) < MaxStmtToks
  /\ \E t \in StmtKinds :
       p' = [p EXCEPT !.tokens = Append(@, MkToken(t, Len(@) + 1))]
  /\ UNCHANGED <<node, entry, stack, program, ppc>>
  /\ LexerIdle

\* the stream ends with Eof; a parser is made for it and parseProgram entered
Parse ==
  /\ ppc = "idle" /\ lpc = "new"
  /\ p' = NewParser(Append(p.tokens, MkToken(Eof, Len(p.tokens) + 1)))
  /\ ppc' = "program"
  /\ UNCHANGED <<node, entry, stack, program>>
  /\ LexerIdle

\* parseStatement returns stmt with the parser at q to its caller: parseProgram
\* appends it; parseBlockStmt (blocks stk open) appends it and runs the
\* loop's p.next()
returnStmt(q, stmt, stk) ==
  IF stk = <<>>
  THEN /\ program' = Append(program, stmt)
       /\ p' = q
       /\ stack' = stk
       /\ ppc' = "program"
  ELSE /\ program' = program
       /\ p' = pnext(q)
       /\ stack' = [stk EXCEPT ![Len(stk)] = Append(@, stmt)]
       /\ ppc' = "block"

\* parseStatement after its switch: the terminator check, then the return
Terminate(q, stmt, stk) ==
  \E m \in {pmatch(q, Semicolon)} :
  \E q1 \in {IF m.ok THEN m.p ELSE perror(q)} :
    returnStmt(q1, stmt, stk)

\* func (p *parser) parseStatement() ast.Statement, called with the blocks
\* stk open, as far as its return or, for a block, the entry of
\* parseBlockStmt's loop (for p.next(); ...)
parseStatement(q, stk) ==
  IF q.peek.Type = LeftBrace
  THEN /\ p' = pnext(q)
       /\ stack' = Append(stk, <<>>)
       /\ ppc' = "block"
       /\ program' = program
  ELSE IF q.peek.Type \in {Let, If, For}
  THEN Terminate(q, NilStatement, stk)
  ELSE IF q.peek.Type \in {String, Not}
  THEN \E r \in {parseCmdStmt(q)} : Terminate(r.p, r.ast, stk)
  ELSE \E q1 \in {pnext(perror(q))} : returnStmt(q1, NilStatement, stk)

\* parseStatement is about to be called
CallsParseStatement ==
  \/ ppc = "program" /\ ~patEnd(p)
  \/ ppc = "block" /\ p.cur.Type # RightBrace

\* func (p *parser) parseProgram() *ast.Program: one pass of its loop
ParseProgram ==
  /\ ppc = "program"
  /\ Len(program) < MaxStmts
  /\ IF patEnd(p)
     THEN /\ ppc' = "done"
          /\ UNCHANGED <<p, stack, program>>
     ELSE parseStatement(p, stack)
  /\ UNCHANGED <<node, entry>>
  /\ LexerIdle

\* func (p *parser) parseBlockStmt() *ast.BlockStatement: one pass of its
\* loop, or its return to parseStatement and that call's return
ParseBlockStmt ==
  /\ ppc = "block"
  /\ Len(stack[Len(stack)]) < MaxStmts
  /\ IF p.cur.Type # RightBrace
     THEN parseStatement(p, stack)
     ELSE \E block \in {BlockStatement(stack[Len(stack)])} :
            Terminate(p, block, SubSeq(stack, 1, Len(stack) - 1))
  /\ UNCHANGED <<node, entry>>
  /\ LexerIdle

NextParser ==
  \/ StmtToken
  \/ Parse
  \/ ParseProgram
  \/ ParseBlockStmt

SpecParser == Init /\ [][NextParser]_vars

(***************************************************************************)
(* Claims about the parser.                                                *)
(***************************************************************************)
\* C6: parseProgram makes progress on every token stream ending in Eof:
\* every call of parseStatement leaves the parser at least one token further,
\* whether the next token is let, if or for, cannot begin a statement, or
\* opens a block that has no closing brace before Eof.
C6_StatementConsumes ==
  [][CallsParseStatement => p'.pos > p.pos]_vars

\* the types of the tokens of a stream, in order
Types(s) == [i \in 1..Len(s) |-> s[i].Type]

\* the place of the last token of type t in stream s, 0 when there is none
LastIndex(s, t) ==
  IF \E i \in 1..Len(s) : s[i].Type = t
  THEN CHOOSE i \in 1..Len(s) :
         s[i].Type = t /\ \A j \in (i + 1)..Len(s) : s[j].Type # t
  ELSE 0

\* the part of stream s before place i, and the part after it
Before(s, i) == SubSeq(s, 1, i - 1)
After(s, i) == SubSeq(s, i + 1, Len(s))

\* a literal command: one or more words
IsLit(s) == Len(s) >= 1 /\ \A i \in 1..Len(s) : s[i].Type = String

\* literal commands separated by |
RECURSIVE IsPipe(_)
IsPipe(s) ==
  IF LastIndex(s, Or) = 0 THEN IsLit(s)
  ELSE IsPipe(Before(s, LastIndex(s, Or))) /\ IsLit(After(s, LastIndex(s, Or)))

\* the tree of a literal command: its name and its arguments
TreeLit(s) == LiteralCommand(s[1], Tail(s))

\* the tree of a pipe expression, grouped to the left: the last | is the root
RECURSIVE TreePipe(_)
TreePipe(s) ==
  IF LastIndex(s, Or) = 0 THEN TreeLit(s)
  ELSE BinaryCommand(TreePipe(Before(s, LastIndex(s, Or))),
                     s[LastIndex(s, Or)],
                     TreeLit(After(s, LastIndex(s, Or))))

\* C8: for literal commands separated by |, two or more, parseCmdPipe
\* returns a BinaryCommand whose Left is the parse of all but the last
\* command and whose Right is the LiteralCommand of the last one; the whole
\* tree is grouped to the left, so a | b | c gives Binary(Binary(a, b), c).
C8_PipeLeftAssoc ==
  (entry = "parseCmdPipe" /\ IsPipe(p.tokens) /\ LastIndex(p.tokens, Or) # 0) =>
    LET s == p.tokens
        i == LastIndex(s, Or)
    IN  /\ node.kind = "BinaryCommand"
        /\ node.Left = parseCmdPipe(NewParser(Before(s, i))).ast
        /\ node.Operator = s[i]
        /\ node.Right = TreeLit(After(s, i))
        /\ node = TreePipe(s)

\* C8 witness: a | b | c has been parsed by parseCmdPipe
C8_Witness ==
  /\ entry = "parseCmdPipe"
  /\ Types(p.tokens) = <<String, Or, String, Or, String>>
  /\ node.Left.kind = "BinaryCommand"
  /\ node.Right.kind = "LiteralCommand"

\* C9: on a stream that begins with !, parseCmdNot returns a UnaryCommand
\* whose Operator is that ! token and whose operand is the whole pipe
\* expression after it: ! a | b gives Unary(!, Binary(a, |, b)).
C9_NotWrapsPipe ==
  (entry = "parseCmdNot" /\ Len(p.tokens) >= 1 /\ p.tokens[1].Type = Not) =>
    /\ node.kind = "UnaryCommand"
    /\ node.Operator = p.tokens[1]
    /\ IsPipe(Tail(p.tokens)) => node.Right = TreePipe(Tail(p.tokens))

\* C9 witness: ! a | b has been parsed by parseCmdNot
C9_Witness ==
  /\ entry = "parseCmdNot"
  /\ Types(p.tokens) = <<Not, String, Or, String>>
  /\ node.Right.kind = "BinaryCommand"

\* a pipe expression, or ! and a pipe expression
IsNot(s) ==
  IF Len(s) >= 1 /\ s[1].Type = Not THEN IsPipe(Tail(s)) ELSE IsPipe(s)

TreeNot(s) ==
  IF s[1].Type = Not THEN UnaryCommand(s[1], TreePipe(Tail(s))) ELSE TreePipe(s)

\* Not expressions separated by &&, grouped to the left
RECURSIVE IsAnd(_)
IsAnd(s) ==
  IF LastIndex(s, LogicalAnd) = 0 THEN IsNot(s)
  ELSE /\ IsAnd(Before(s, LastIndex(s, LogicalAnd)))
       /\ IsNot(After(s, LastIndex(s, LogicalAnd)))

RECURSIVE TreeAnd(_)
TreeAnd(s) ==
  IF LastIndex(s, LogicalAnd) = 0 THEN TreeNot(s)
  ELSE LogicalCommand(TreeAnd(Before(s, LastIndex(s, LogicalAnd))),
                      s[LastIndex(s, LogicalAnd)],
                      TreeNot(After(s, LastIndex(s, LogicalAnd))))

\* And expressions separated by ||, grouped to the left
RECURSIVE IsLor(_)
IsLor(s) ==
  IF LastIndex(s, LogicalOr) = 0 THEN IsAnd(s)
  ELSE /\ IsLor(Before(s, LastIndex(s, LogicalOr)))
       /\ IsAnd(After(s, LastIndex(s, LogicalOr)))

RECURSIVE TreeLor(_)
TreeLor(s) ==
  IF LastIndex(s, LogicalOr) = 0 THEN TreeAnd(s)
  ELSE LogicalCommand(TreeLor(Before(s, LastIndex(s, LogicalOr))),
                      s[LastIndex(s, LogicalOr)],
                      TreeAnd(After(s, LastIndex(s, LogicalOr))))

\* in every LogicalCommand of tree n over stream s the Operator is a || or
\* && token of s that stands after the tokens of Left and before those of
\* Right
RECURSIVE FirstCol(_)
FirstCol(n) ==
  IF n.kind = "LiteralCommand" THEN n.Cmd.Position.Col
  ELSE IF n.kind = "UnaryCommand" THEN n.Operator.Position.Col
  ELSE FirstCol(n.Left)

RECURSIVE OperatorsMatched(_, _)
OperatorsMatched(n, s) ==
  IF n.kind = "LiteralCommand" THEN TRUE
  ELSE IF n.kind = "UnaryCommand" THEN OperatorsMatched(n.Right, s)
  ELSE /\ OperatorsMatched(n.Left, s)
       /\ OperatorsMatched(n.Right, s)
       /\ n.kind = "LogicalCommand" =>
            /\ n.Operator.Type \in {LogicalOr, LogicalAnd}
            /\ \E i \in 1..Len(s) : s[i] = n.Operator
            /\ FirstCol(n.Left) < n.Operator.Position.Col
            /\ IsLor(s) => n.Operator.Position.Col < FirstCol(n.Right)

\* C10: && binds tighter than || and both group to the left: a well-formed
\* command parses to the tree of that grammar, a || b && c to
\* Logical(a, ||, Logical(b, &&, c)), and the Operator of every
\* LogicalCommand is the || or && token matched between its operands.
C10_LogicalPrecedence ==
  entry = "parseCommand" =>
    LET s == p.tokens
    IN  /\ IsLor(s) => node = TreeLor(s)
        /\ Types(s) = <<String, LogicalOr, String, LogicalAnd, String>> =>
             node = LogicalCommand(LiteralCommand(s[1], <<>>), s[2],
                      LogicalCommand(LiteralCommand(s[3], <<>>), s[4],
                                     LiteralCommand(s[5], <<>>)))
        /\ OperatorsMatched(node, s)

\* C10 witness: a || b && c has been parsed by parseCommand
C10_Witness ==
  /\ entry = "parseCommand"
  /\ Types(p.tokens) = <<String, LogicalOr, String, LogicalAnd, String>>
  /\ node.kind = "LogicalCommand"
  /\ node.Right.kind = "LogicalCommand"

\* the LiteralCommand nodes of a command tree
RECURSIVE Literals(_)
Literals(n) ==
  IF n.kind = "LiteralCommand" THEN {n}
  ELSE IF n.kind = "UnaryCommand" THEN Literals(n.Right)
  ELSE Literals(n.Left) \cup Literals(n.Right)

\* a stream as parseStatement hands it to the command productions: it begins
\* with a STRING or ! token and ends with the terminator
IsCmdStmtStream(s) ==
  /\ Len(s) >= 2
  /\ s[1].Type \in {String, Not}
  /\ s[Len(s)].Type = Semicolon

\* C11: a command production never builds a LiteralCommand without a name:
\* every LiteralCommand of the tree it returns has a STRING token as Cmd, so
\* every operand of a Unary, Binary or Logical command is a real command.
C11_LiteralHasName ==
  (entry # "none" /\ IsCmdStmtStream(p.tokens)) =>
    \A lit \in Literals(node) : lit.Cmd.Type = String

\* parseProgram calls parseStatement on a command whose parse does not end
\* before a semicolon: one more error is reported, the offending token is
\* still the lookahead, and the statement is appended to the program
MissingTerminatorStep ==
  (ppc = "program" /\ ~patEnd(p) /\ p.peek.Type \in {String, Not}
     /\ parseCmdStmt(p).p.peek.Type # Semicolon) =>
    /\ p'.errs = parseCmdStmt(p).p.errs + 1
    /\ p'.pos = parseCmdStmt(p).p.pos
    /\ p'.peek = parseCmdStmt(p).p.peek
    /\ program' = Append(program, parseCmdStmt(p).ast)
    /\ ppc' = "program"

\* stream s is two well-formed commands, a semicolon after the second only,
\* and Eof
TwoCommands(s) ==
  /\ Len(s) >= 4
  /\ s[Len(s)].Type = Eof
  /\ s[Len(s) - 1].Type = Semicolon
  /\ \E i \in 1..(Len(s) - 3) :
       IsLor(SubSeq(s, 1, i)) /\ IsLor(SubSeq(s, i + 1, Len(s) - 2))

\* parseProgram has returned for two commands with one semicolon: one error
\* reported, two statements
TwoCommandsRecovered ==
  (ppc = "done" /\ TwoCommands(p.tokens)) => p.errs = 1 /\ Len(program) = 2

\* C12: a statement not followed by a semicolon makes parseStatement report
\* exactly one error, leave the offending token unconsumed and return the
\* statement, and parseProgram goes on; two commands with a semicolon after
\* the second only give one error and a Program of two statements.
C12_MissingTerminator ==
  [][MissingTerminatorStep]_vars /\ []TwoCommandsRecovered

(***************************************************************************)
(* The lexer's methods applied to a lexer on a source of arbitrary bytes:  *)
(* SpecMethods.  lpc names the method called last.                         *)
(***************************************************************************)
\* the longest source, and the most errors counted before consume is no
\* longer called
MaxBytes == 4

MaxErrCount == 3

\* NUL, newline, a letter, and the bytes of the byte-order mark EF BB BF, of
\* which BB and BF alone, and EF cut short, are invalid UTF-8
Bytes == {0, 10, 97, 239, 187, 191}

ByteSources == UNION { [1..n -> Bytes] : n \in 0..MaxBytes }

\* Lex's lexer literal for a source of bytes, with or without a handler
NewLexerBytes ==
  /\ lpc = "new" /\ ppc = "idle" /\ p.tokens = <<>>
  /\ \E src \in ByteSources, err \in BOOLEAN : l' = NewLexer(src, err)
  /\ lpc' = "lexer"
  /\ UNCHANGED <<state, sendTok, emitNext, buf, closed, closes, sent, windows, received, cpc>>
  /\ UNCHANGED parVars

\* a call of l.consume()
CallConsume ==
  /\ lpc \in {"lexer", "consume", "backup", "ignore"}
  /\ l.ErrCount < MaxErrCount
  /\ l' = consume(l)
  /\ lpc' = "consume"
  /\ UNCHANGED <<state, sendTok, emitNext, buf, closed, closes, sent, windows, received, cpc>>
  /\ UNCHANGED parVars

\* a call of l.backup(), which follows a consume
CallBackup ==
  /\ lpc = "consume"
  /\ l' = backup(l)
  /\ lpc' = "backup"
  /\ UNCHANGED <<state, sendTok, emitNext, buf, closed, closes, sent, windows, received, cpc>>
  /\ UNCHANGED parVars

\* a call of l.ignore()
CallIgnore ==
  /\ lpc \in {"consume", "backup"}
  /\ l' = ignore(l)
  /\ lpc' = "ignore"
  /\ UNCHANGED <<state, sendTok, emitNext, buf, closed, closes, sent, windows, received, cpc>>
  /\ UNCHANGED parVars

NextMethods ==
  \/ NewLexerBytes
  \/ CallConsume
  \/ CallBackup
  \/ CallIgnore

SpecMethods == Init /\ [][NextMethods]_vars

(***************************************************************************)
(* Claims about the lexer's methods.                                       *)
(***************************************************************************)
\* the rest of the source from the read offset of lexer l1
Rest(l1) == SubSeq(l1.src, l1.rdOffset + 1, Len(l1.src))

\* the byte consume is about to read is a NUL or is not the start of a valid
\* UTF-8 sequence
FaultyByte(l1) ==
  /\ ~atEnd(l1)
  /\ \/ Rest(l1)[1] = 0
     \/ /\ Rest(l1)[1] >= 128
        /\ DecodeRune(Rest(l1)) = [r |-> 65533, w |-> 1]

\* consume is about to read a byte-order mark
BomAhead(l1) == ~atEnd(l1) /\ DecodeRune(Rest(l1)) = [r |-> bom, w |-> 3]

\* a consume of a faulty byte counts one error, calls the handler, when
\* there is one, once and with the position of that byte, and moves the read
\* offset one byte on
FaultCounted ==
  (lpc' = "consume" /\ FaultyByte(l)) =>
    /\ l'.ErrCount = l.ErrCount + 1
    /\ l'.rdOffset = l.rdOffset + 1
    /\ IF l.err
       THEN /\ Len(l'.errs) = Len(l.errs) + 1
            /\ SubSeq(l'.errs, 1, Len(l.errs)) = l.errs
            /\ l'.errs[Len(l'.errs)].pos = l.pos
       ELSE l'.errs = l.errs

\* a consume of a valid rune counts no error
ValidNotCounted ==
  (lpc' = "consume" /\ ~atEnd(l) /\ ~FaultyByte(l)) =>
    l'.ErrCount = l.ErrCount /\ l'.errs = l.errs

\* a consume of a valid rune that is not a byte-order mark read after the
\* token start has moved counts no error
ValidNotBomNotCounted ==
  (lpc' = "consume" /\ ~atEnd(l) /\ ~FaultyByte(l)
     /\ ~(BomAhead(l) /\ l.offset > 0)) =>
    l'.ErrCount = l.ErrCount /\ l'.errs = l.errs

\* C13 as stated: every consume of a NUL or an invalid UTF-8 byte counts
\* exactly one error, calls the handler once with the byte's position and
\* advances one byte; a consume of a valid rune counts none.
C13_FaultsCountedOnce_Stated ==
  [][FaultCounted]_vars /\ [][ValidNotCounted]_vars

\* C13, amended: as stated, except that a valid rune which is a byte-order
\* mark read while the token start is past offset 0 is counted as ErrBOM.
C13_FaultsCountedOnce ==
  [][FaultCounted]_vars /\ [][ValidNotBomNotCounted]_vars

\* C13 witness: consume has read a NUL and an invalid byte, counted both and
\* gone on to the end of the source
C13_Witness ==
  /\ lpc = "consume"
  /\ l.ErrCount = 2
  /\ Len(l.errs) = 2
  /\ l.errs[1].err = "ErrNUL"
  /\ l.errs[2].err = "ErrEnc"
  /\ l.rdOffset = Len(l.src)
  /\ Len(l.src) = 3

\* a consume of a byte-order mark counts no error at byte offset 0 and one
\* error, ErrBOM, at any later byte offset
BomReported ==
  (lpc' = "consume" /\ BomAhead(l)) =>
    IF l.rdOffset = 0
    THEN l'.ErrCount = l.ErrCount /\ l'.errs = l.errs
    ELSE /\ l'.ErrCount = l.ErrCount + 1
         /\ l.err => /\ Len(l'.errs) = Len(l.errs) + 1
                     /\ l'.errs[Len(l'.errs)].err = "ErrBOM"

\* C14: consume reports a byte-order mark as ErrBOM if and only if it is not
\* the first rune of the source: none at byte offset 0, exactly one at any
\* later byte offset, wherever the current token starts.
C14_BomIffNotFirst == [][BomReported]_vars

\* C20: in every lexer state, the end of the source included, a consume
\* followed by a backup leaves rdOffset and pos as they were before the
\* consume.
C20_BackupUndoesConsume ==
  lpc \in {"lexer", "consume", "backup", "ignore"} =>
    /\ backup(consume(l)).rdOffset = l.rdOffset
    /\ backup(consume(l)).pos = l.pos

(***************************************************************************)
(* Claims about positions, white space, strings, comments and keywords.    *)
(***************************************************************************)
\* the number of newlines among the first n bytes of s
Newlines(s, n) == Cardinality({ i \in 1..n : s[i] = 10 })

\* the place of the last newline among the first n bytes of s, 0 if none
LastNewline(s, n) ==
  IF Newlines(s, n) = 0 THEN 0
  ELSE CHOOSE i \in 1..n : s[i] = 10 /\ \A j \in (i + 1)..n : s[j] # 10

\* the line and column of the byte at offset n of s
PosAt(s, n) ==
  [Line |-> Newlines(s, n) + 1, Col |-> n - LastNewline(s, n) + 1]

\* position a is before position b
PosLess(a, b) == a.Line < b.Line \/ (a.Line = b.Line /\ a.Col < b.Col)

\* the lexer starts at line 1, column 1
StartsAtOrigin == (lpc = "run" /\ state = "lexBase") => l.pos = origin

\* consume on a newline gives the next line, column 1; on any other rune it
\* leaves the line as it is
ConsumeTracksLines ==
  (lpc \in {"run", "sent"} /\ ~atEnd(l)) =>
    IF peek(l) = 10
    THEN consume(l).pos = [Line |-> l.pos.Line + 1, Col |-> 1]
    ELSE consume(l).pos.Line = l.pos.Line

\* the token that starts right after the k-th newline is at line k+1,
\* column 1
LineStartTokens ==
  \A i \in 1..Len(sent) :
    (windows[i].offset > 0 /\ l.src[windows[i].offset] = 10) =>
      sent[i].Position =
        [Line |-> Newlines(l.src, windows[i].offset) + 1, Col |-> 1]

\* positions of the tokens emitted one after another increase
PositionsIncrease ==
  \A i \in 1..(Len(sent) - 1) : PosLess(sent[i].Position, sent[i + 1].Position)

\* C15: the lexer starts at line 1, column 1; a consumed newline starts the
\* next line at column 1 and no other rune changes the line; the token
\* starting right after the k-th newline has Position line k+1, column 1;
\* the Positions of successive tokens are strictly increasing.
C15_PositionTracking ==
  /\ StartsAtOrigin
  /\ ConsumeTracksLines
  /\ LineStartTokens
  /\ PositionsIncrease

\* C15 witness: a token that starts right after the first newline, at line
\* 2 column 1, has been sent after a token of line 1
C15_Witness ==
  /\ Len(sent) >= 2
  /\ windows[2].offset > 0
  /\ l.src[windows[2].offset] = 10
  /\ sent[1].Position = [Line |-> 1, Col |-> 1]
  /\ sent[2].Position = [Line |-> 2, Col |-> 1]

\* C16: white space is skipped, never emitted: an emitted token's literal
\* does not begin with the white space that stood before the token, and its
\* Position is that of its own first rune.
C16_WhitespaceSkipped ==
  \A i \in 1..Len(sent) :
    /\ sent[i].Position = PosAt(l.src, windows[i].offset)
    /\ sent[i].Literal # <<>> => ~IsSpace(sent[i].Literal[1])
    /\ (sent[i].Type \notin {String, Comment}) =>
         \A j \in 1..Len(sent[i].Literal) : ~IsSpace(sent[i].Literal[j])

\* C16 witness: a token has been sent whose first rune comes after white
\* space, and a token before it
C16_Witness ==
  /\ Len(sent) >= 2
  /\ windows[2].offset > windows[1].rdOffset
  /\ IsSpace(l.src[windows[2].offset])
  /\ sent[2].Literal # <<>>
  /\ sent[2].Position = PosAt(l.src, windows[2].offset)

\* the place of the first double quote of s after place n, 0 if there is none
NextQuote(s, n) ==
  IF \E j \in (n + 1)..Len(s) : s[j] = 34
  THEN CHOOSE j \in (n + 1)..Len(s) :
         s[j] = 34 /\ \A k \in (n + 1)..(j - 1) : s[k] # 34
  ELSE 0

\* C17: a token that begins with a double quote runs through the closing
\* quote and is a STRING, both quotes in its literal; with no closing quote
\* before the end of the source it is ILLEGAL, not a STRING.
C17_QuotedStrings ==
  \A i \in 1..Len(sent) :
    (sent[i].Literal # <<>> /\ sent[i].Literal[1] = 34) =>
      IF NextQuote(l.src, windows[i].offset + 1) # 0
      THEN /\ sent[i].Type = String
           /\ windows[i].rdOffset = NextQuote(l.src, windows[i].offset + 1)
           /\ sent[i].Literal[Len(sent[i].Literal)] = 34
      ELSE sent[i].Type = Illegal

\* the place of the first newline of s after place n, 0 if there is none
NextNewline(s, n) ==
  IF \E j \in (n + 1)..Len(s) : s[j] = 10
  THEN CHOOSE j \in (n + 1)..Len(s) :
         s[j] = 10 /\ \A k \in (n + 1)..(j - 1) : s[k] # 10
  ELSE 0

\* a token that begins with # is a COMMENT whose literal runs from the
\* # through the newline that ends the line; lexing resumes with the first
\* rune of the next line: only white space lies between the comment and the
\* token sent after it, which is on a later line.
CommentTokens ==
  \A i \in 1..Len(sent) :
    (sent[i].Literal # <<>> /\ sent[i].Literal[1] = 35) =>
      /\ sent[i].Type = Comment
      /\ NextNewline(l.src, windows[i].offset) # 0 =>
           /\ windows[i].rdOffset = NextNewline(l.src, windows[i].offset)
           /\ sent[i].Literal[Len(sent[i].Literal)] = 10
           /\ \A j \in 1..(Len(sent[i].Literal) - 1) : sent[i].Literal[j] # 10
           /\ i < Len(sent) =>
                /\ windows[i + 1].offset >= windows[i].rdOffset
                /\ \A j \in (windows[i].rdOffset + 1)..windows[i + 1].offset :
                     IsSpace(l.src[j])
                /\ sent[i + 1].Position.Line > sent[i].Position.Line

\* once a source has been lexed in statement mode, every # of it is in a
\* COMMENT token, or inside a STRING token
HashesInComments ==
  (lpc = "done" /\ Len(sent) > 0) =>
    \A b \in 1..Len(l.src) :
      l.src[b] = 35 =>
        \E i \in 1..Len(sent) :
          /\ windows[i].offset < b /\ b <= windows[i].rdOffset
          /\ sent[i].Type \in {Comment, String}

\* C18: a # in statement mode starts a comment consumed through the end of
\* the line and emitted as one COMMENT token, its literal running from the #
\* through the newline; lexing resumes with the first rune of the next line.
C18_LineComments == CommentTokens /\ HashesInComments

\* C18 witness: a comment ended by a newline has been sent, and the token
\* after it
C18_Witness ==
  /\ Len(sent) >= 3
  /\ sent[2].Type = Comment
  /\ sent[2].Literal = <<35, 10>>
  /\ sent[3].Position = [Line |-> 2, Col |-> 1]

\* the number of white space bytes s begins with
LeadingSpace(s) ==
  CHOOSE n \in 0..Len(s) :
    /\ \A i \in 1..n : IsSpace(s[i])
    /\ n < Len(s) => ~IsSpace(s[n + 1])

\* a lower-case letter a..z
IsLower(r) == r >= 97 /\ r <= 122

\* the first word of s: the run of letters after the leading white space
FirstWord(s) ==
  LET n == LeadingSpace(s)
      m == CHOOSE k \in n..Len(s) :
             /\ \A i \in (n + 1)..k : IsLower(s[i])
             /\ k < Len(s) => ~IsLower(s[k + 1])
  IN  SubSeq(s, n + 1, m)

\* C19: once the lexer has run, a source whose first word is a keyword has
\* that keyword's token, spelled as the keyword, as the first token sent and
\* was lexed on in statement mode to Eof; for any other source the base state
\* has sent no keyword token.
C19_KeywordDispatch ==
  lpc = "done" =>
    IF IsKeyword(FirstWord(l.src))
    THEN /\ Len(sent) >= 1
         /\ sent[1].Type = Lookup(FirstWord(l.src))
         /\ sent[1].Literal = FirstWord(l.src)
         /\ sent[Len(sent)].Type = Eof
    ELSE Len(sent) = 0 \/ ~TypeIsKeyword(sent[1].Type)

(***************************************************************************)
(* The lexer on sources that hold an operator rune: SpecOps.               *)
(***************************************************************************)
\* the longest run of bytes after the operator rune
MaxTail == 1

\* the runes c for which token.IsOperator(string(c)) holds
OpRunes == { c \in 0..127 : IsOperator(<<c>>) }

\* what follows the operator rune: digits and blanks
Tails == UNION { [1..k -> {32, 49}] : k \in 0..MaxTail }

\* a source with an operator rune at its head or after the keyword "if"
OpSources == { h \o <<c>> \o t : h \in Heads, c \in OpRunes, t \in Tails }

\* func Lex(src string, err ErrorHandler) TokenStream, for such a source
LexOp ==
  /\ lpc = "new" /\ ppc = "idle" /\ p.tokens = <<>>
  /\ \E src \in OpSources : l' = NewLexer(src, TRUE)
  /\ lpc' = "run"
  /\ UNCHANGED <<state, sendTok, emitNext, buf, closed, closes, sent, windows, received, cpc>>
  /\ UNCHANGED parVars

NextOps ==
  \/ LexOp
  \/ LexBase
  \/ LexStmt
  \/ LexNum
  \/ LexStmtOp
  \/ LexCmd
  \/ EmitReturn
  \/ Close
  \/ Receive
  \/ RangeEnd

SpecOps == Init /\ [][NextOps]_vars

\* C21: a token emitted for an operator rune c, one for which
\* token.IsOperator(string(c)) holds, has the type whose spelling in the
\* token table is c: never Illegal, never another operator's type.
C21_OperatorKinds ==
  \A i \in 1..Len(sent) :
    (Len(sent[i].Literal) = 1 /\ IsOperator(sent[i].Literal)) =>
      /\ sent[i].Type = token(sent[i].Literal)
      /\ tokens[sent[i].Type + 1] = sent[i].Literal
      /\ TypeIsOperator(sent[i].Type)

(***************************************************************************)
(* parseProgram on token streams of braces, words and semicolons:          *)
(* SpecBlock.                                                              *)
(***************************************************************************)
\* the longest block stream, its Eof not counted
MaxBlockToks == 6

\* the token types a block of literal commands is made of
BlockKinds == {String, Semicolon, LeftBrace, RightBrace}

\* the token stream grows by one token
BlockToken ==
  /\ ppc = "idle" /\ lpc = "new"
  /\ Len(p.tokens) < MaxBlockToks
  /\ \E t \in BlockKinds :
       p' = [p EXCEPT !.tokens = Append(@, MkToken(t, Len(@) + 1))]
  /\ UNCHANGED <<node, entry, stack, program, ppc>>
  /\ LexerIdle

NextBlock ==
  \/ BlockToken
  \/ Parse
  \/ ParseProgram
  \/ ParseBlockStmt

SpecBlock == Init /\ [][NextBlock]_vars

\* the place of the first semicolon of s, 0 if there is none
FirstSemi(s) ==
  IF \E j \in 1..Len(s) : s[j].Type = Semicolon
  THEN CHOOSE j \in 1..Len(s) :
         s[j].Type = Semicolon /\ \A k \in 1..(j - 1) : s[k].Type # Semicolon
  ELSE 0

\* s is a run of well-formed commands, each with its semicolon
RECURSIVE IsBody(_)
IsBody(s) ==
  \/ s = <<>>
  \/ /\ FirstSemi(s) # 0
     /\ IsLor(Before(s, FirstSemi(s)))
     /\ IsBody(After(s, FirstSemi(s)))

\* the statements of such a run, in order
RECURSIVE BodyStatements(_)
BodyStatements(s) ==
  IF s = <<>> THEN <<>>
  ELSE <<CmdStatement(TreeLor(Before(s, FirstSemi(s))))>>
         \o BodyStatements(After(s, FirstSemi(s)))

\* the tokens between the first and the last but one token of s
Body(s) == SubSeq(s, 2, Len(s) - 2)

\* s is { S1 ... Sn } and Eof, each Si a well-formed command with its
\* semicolon
IsBlockStream(s) ==
  /\ Len(s) >= 3
  /\ s[1].Type = LeftBrace
  /\ s[Len(s) - 1].Type = RightBrace
  /\ s[Len(s)].Type = Eof
  /\ IsBody(Body(s))

\* C22: on { S1 ... Sn } parseBlockStmt reports no error and collects the
\* parses of S1..Sn in order, none skipped and none nil, and returns the
\* BlockStatement of exactly these with the closing brace as the last token
\* consumed.
C22_BlockStatements ==
  IsBlockStream(p.tokens) =>
    /\ ppc = "block" =>
         /\ p.errs = 0
         /\ Len(stack) = 1
         /\ Len(stack[1]) <= Len(BodyStatements(Body(p.tokens)))
         /\ stack[1] = SubSeq(BodyStatements(Body(p.tokens)), 1, Len(stack[1]))
    /\ Len(program) >= 1 =>
         /\ program = <<BlockStatement(BodyStatements(Body(p.tokens)))>>
         /\ p.cur = p.tokens[Len(p.tokens) - 1]
====
